---- MODULE Spec2Model ----
(***************************************************************************)
(* reproxy: a regex reverse proxy (src/main.rs).                           *)
(*                                                                         *)
(* The model covers parse_config (the rule compiler run by main), and      *)
(* handle_request / handle (routing, header policy, dispatch, logging).    *)
(* Strings are sequences of one-character strings.  Regular expressions    *)
(* are a fragment of the regex crate's syntax: literal characters, the     *)
(* anchor ^ and groups ( ); an unbalanced parenthesis is the syntax error. *)
(***************************************************************************)
EXTENDS Integers, Sequences, FiniteSets, TLC

VARIABLES
    phase,          \* main: "boot" (parse_config running), "serving", "failed"
    config,         \* Config: the rule definitions, in document order
    visited,        \* parse_config: entries of config.0 already iterated
    items,          \* parse_config: the local Vec `items`
    horder,         \* parse_config: the order item.headers.iter() took, per item pushed
    parse_err,      \* the anyhow::Error main returns, or NoErr
    proxy_items,    \* AppState.proxy_items
    pc,             \* per handler: position inside handle_request/handle
    request,        \* per handler: the inbound Request
    url,            \* per handler: host + uri
    matched,        \* per handler: index of matched_item in proxy_items, 0 = None
    target_url,     \* per handler: item.regex.replace(url, item.replace)
    builder,        \* per handler: the reqwest RequestBuilder
    idx,            \* per handler: position of the header loop
    applied,        \* per handler: the `action` resolved for each header so far
    log,            \* per handler: the tracing records emitted for this request
    response,       \* per handler: the Response returned to the client
    upstream_calls, \* per handler: number of client.execute calls for this request
    hops,           \* per handler: redirects the client has followed inside execute
    subresp,        \* per handler: what client.execute resolved to
    stream          \* per handler: the response body stream, once the response is returned

vars == <<phase, config, visited, items, horder, parse_err, proxy_items, pc, request,
          url, matched, target_url, builder, idx, applied, log, response, upstream_calls,
          hops, subresp, stream>>

compileVars == <<visited, items, horder, parse_err, proxy_items>>
upstreamVars == <<hops, subresp, stream>>
handlerVars == <<pc, request, url, matched, target_url, builder, idx, applied, log,
                 response, upstream_calls, upstreamVars>>

-----------------------------------------------------------------------------
(* Bounds of the model *)

MaxRules == 2
MaxHeaders == 2

-----------------------------------------------------------------------------
(* Strings and regular expressions *)

Range(s) == {s[i] : i \in DOMAIN s}

\* All orderings of a finite set, as sequences (an iteration order of a HashMap).
Orders(S) ==
    {o \in [1..Cardinality(S) -> S] : \A i, j \in 1..Cardinality(S) : o[i] = o[j] => i = j}

\* str::to_lowercase on the header names of the model.
to_lowercase(n) ==
    CASE n = "X-A" -> "x-a"
      [] n = "X-B" -> "x-b"
      [] OTHER -> n

\* Nesting depth of parentheses after the first n characters of p; -1 once a
\* closing parenthesis had no opener.
RECURSIVE Depth(_, _)
Depth(p, n) ==
    IF n = 0 THEN 0
    ELSE LET d == Depth(p, n - 1) IN
         IF d < 0 THEN -1
         ELSE IF p[n] = "(" THEN d + 1
         ELSE IF p[n] = ")" THEN d - 1
         ELSE d

\* Regex::new: Ok(regex) or Err(regex::Error::Syntax), whose text quotes the pattern.
RegexNew(p) ==
    IF Depth(p, Len(p)) = 0
    THEN [ok |-> TRUE, regex |-> p, err |-> <<>>]
    ELSE [ok |-> FALSE, regex |-> <<>>, err |-> p]

\* The regex re, from its k-th item on, matches text s from position pos on;
\* the result is the position after the match, or 0 when there is no match.
RECURSIVE MatchFrom(_, _, _, _)
MatchFrom(re, k, s, pos) ==
    IF k > Len(re) THEN pos
    ELSE IF re[k] \in {"(", ")"} THEN MatchFrom(re, k + 1, s, pos)
    ELSE IF re[k] = "^" THEN (IF pos = 1 THEN MatchFrom(re, k + 1, s, pos) ELSE 0)
    ELSE IF pos <= Len(s) /\ s[pos] = re[k] THEN MatchFrom(re, k + 1, s, pos + 1)
    ELSE 0

\* Start positions at which re matches in s.
MatchStarts(re, s) == {i \in 1..(Len(s) + 1) : MatchFrom(re, 1, s, i) # 0}

\* Regex::is_match: the regex matches anywhere within s.
is_match(re, s) == MatchStarts(re, s) # {}

Min(S) == CHOOSE x \in S : \A y \in S : x <= y

\* Expansion of a replacement template: $0 is the whole match.
RECURSIVE Expand(_, _)
Expand(tpl, m) ==
    IF tpl = <<>> THEN <<>>
    ELSE (IF Head(tpl) = "$0" THEN m ELSE <<Head(tpl)>>) \o Expand(Tail(tpl), m)

\* Mutant of replace: Regex::replace_all, every match replaced, left to right.
RECURSIVE ReplaceAllFrom(_, _, _, _)
ReplaceAllFrom(re, s, tpl, pos) ==
    LET M == {i \in MatchStarts(re, s) : i >= pos} IN
    IF M = {} THEN SubSeq(s, pos, Len(s))
    ELSE LET i == Min(M)
             e == MatchFrom(re, 1, s, i)
         IN  SubSeq(s, pos, i - 1) \o Expand(tpl, SubSeq(s, i, e - 1))
             \o (IF e > i THEN ReplaceAllFrom(re, s, tpl, e) ELSE SubSeq(s, e, Len(s)))
replace_all(re, s, tpl) == ReplaceAllFrom(re, s, tpl, 1)

\* Regex::replace: the leftmost match replaced by the expanded template, the
\* rest of the text kept; the text unchanged when nothing matches.
replace(re, s, tpl) ==
    IF ~is_match(re, s) THEN s
    ELSE LET i == Min(MatchStarts(re, s))
             e == MatchFrom(re, 1, s, i)
         IN  SubSeq(s, 1, i - 1) \o Expand(tpl, SubSeq(s, i, e - 1)) \o SubSeq(s, e, Len(s))

\* HeaderValue::to_str: fails unless every byte is visible ASCII.
to_str_ok(v) == \A i \in DOMAIN v : v[i] # "0x80"

\* Url parsing inside reqwest (IntoUrl): "S" stands for the scheme prefix
\* "http://"; a string without it is a relative URL without a base, an error.
url_ok(t) == Len(t) >= 1 /\ t[1] = "S"

-----------------------------------------------------------------------------
(* Rule definitions: Config, ProxyItemConfig, ProxyHeaderConfig *)

CfgPassthrough == [kind |-> "Passthrough", match |-> <<>>, replace |-> <<>>]
CfgIgnore == [kind |-> "Ignore", match |-> <<>>, replace |-> <<>>]
CfgReplace(m, r) == [kind |-> "Replace", match |-> m, replace |-> r]

\* The rule definitions the configurations of the model are drawn from.
RuleDefs ==
    { [match |-> <<"a">>, target |-> <<"S", "$0">>, follow_redirect |-> FALSE,
       headers |-> ("x-a" :> CfgReplace(<<"^", "a">>, <<"b", "$0">>))
                   @@ ("$default" :> CfgPassthrough)],
      [match |-> <<"^", "b">>, target |-> <<"S">>, follow_redirect |-> TRUE,
       headers |-> ("X-A" :> CfgPassthrough) @@ ("x-a" :> CfgIgnore)],
      [match |-> <<"(", "b", ")">>, target |-> <<"S", "b">>, follow_redirect |-> FALSE,
       headers |-> ("$default" :> CfgReplace(<<"b">>, <<"a">>)) @@ ("X-B" :> CfgIgnore)],
      [match |-> <<"(", "a">>, target |-> <<"S">>, follow_redirect |-> FALSE,
       headers |-> ("x-b" :> CfgPassthrough)],
      [match |-> <<"/">>, target |-> <<"S">>, follow_redirect |-> FALSE,
       headers |-> ("x-b" :> CfgReplace(<<")">>, <<>>))
                   @@ ("$default" :> CfgReplace(<<"(">>, <<>>))] }

RuleNames == <<"r1", "r2", "r3", "r4">>

\* The configurations: 1..MaxRules definitions, no two alike; the i-th of the
\* document is named RuleNames[i].
Configs ==
    UNION { {[i \in 1..n |-> [name |-> RuleNames[i], item |-> f[i]]] :
                f \in {g \in [1..n -> RuleDefs] : \A i, j \in 1..n : g[i] = g[j] => i = j}}
            : n \in 1..MaxRules }

-----------------------------------------------------------------------------
(* parse_config *)

Passthrough == [kind |-> "Passthrough", regex |-> <<>>, replace |-> <<>>]
Ignore == [kind |-> "Ignore", regex |-> <<>>, replace |-> <<>>]
Replace(re, r) == [kind |-> "Replace", regex |-> re, replace |-> r]

NoErr == [kind |-> "none", text |-> <<>>, context |-> <<>>]
\* anyhow::Error made by `?` from a regex::Error: the regex crate's message
\* (it quotes the pattern) and no context.
RegexErr(p) == [kind |-> "regex::Error::Syntax", text |-> p, context |-> <<>>]

NoActions == [k \in {} |-> Ignore]

\* Mutant of DefaultFallback: unlisted headers forwarded by default.
DefaultFallbackPassthrough == Passthrough

\* let mut header_action_fallback = HeaderAction::Ignore (line 86)
DefaultFallback == Ignore

\* The match of lines 88-95: Ok(action) or the error of Regex::new.
CompileAction(hc) ==
    IF hc.kind = "Passthrough" THEN [ok |-> TRUE, action |-> Passthrough, err |-> NoErr]
    ELSE IF hc.kind = "Ignore" THEN [ok |-> TRUE, action |-> Ignore, err |-> NoErr]
    ELSE LET r == RegexNew(hc.match) IN
         IF r.ok THEN [ok |-> TRUE, action |-> Replace(r.regex, hc.replace), err |-> NoErr]
         ELSE [ok |-> FALSE, action |-> Ignore, err |-> RegexErr(r.err)]

\* Mutant of InsertAction: the key inserted as written, not lower-cased.
InsertActionKeepCase(acc, header_name, action) ==
    IF header_name = "$default"
    THEN [acc EXCEPT !.fallback = action]
    ELSE [acc EXCEPT !.actions =
            [k \in DOMAIN acc.actions \cup {header_name} |->
                IF k = header_name THEN action ELSE acc.actions[k]]]

\* Mutant of InsertAction: a key already in the table keeps its first action.
InsertActionKeepFirst(acc, header_name, action) ==
    IF header_name = "$default"
    THEN [acc EXCEPT !.fallback = action]
    ELSE [acc EXCEPT !.actions =
            [k \in DOMAIN acc.actions \cup {to_lowercase(header_name)} |->
                IF k \in DOMAIN acc.actions THEN acc.actions[k] ELSE action]]

\* Insertion of a header action (lines 96-100).
InsertAction(acc, header_name, action) ==
    IF header_name = "$default"
    THEN [acc EXCEPT !.fallback = action]
    ELSE [acc EXCEPT !.actions =
            [k \in DOMAIN acc.actions \cup {to_lowercase(header_name)} |->
                IF k = to_lowercase(header_name) THEN action ELSE acc.actions[k]]]

\* The loop over item.headers (lines 87-101), in iteration order `order`,
\* from its i-th entry on.
RECURSIVE CompileHeaders(_, _, _, _)
CompileHeaders(headers, order, i, acc) ==
    IF i > Len(order) THEN acc
    ELSE LET c == CompileAction(headers[order[i]]) IN
         IF ~c.ok THEN [acc EXCEPT !.ok = FALSE, !.err = c.err]
         ELSE CompileHeaders(headers, order, i + 1, InsertAction(acc, order[i], c.action))

\* One iteration of the loop over config.0 (lines 83-109).
CompileItem(name, item, order) ==
    LET re == RegexNew(item.match) IN
    IF ~re.ok THEN [ok |-> FALSE, err |-> RegexErr(re.err), item |-> <<>>]
    ELSE LET h == CompileHeaders(item.headers, order, 1,
                    [ok |-> TRUE, err |-> NoErr, actions |-> NoActions,
                     fallback |-> DefaultFallback])
         IN  IF ~h.ok THEN [ok |-> FALSE, err |-> h.err, item |-> <<>>]
             ELSE [ok |-> TRUE, err |-> NoErr,
                   item |-> [name |-> name,
                             regex |-> re.regex,
                             replace |-> item.target,
                             follow_redirect |-> item.follow_redirect,
                             header_actions |-> h.actions,
                             header_action_fallback |-> h.fallback]]

\* Mutant of ParseStep: best effort, an entry that fails to compile is skipped.
ParseStepBestEffort ==
    /\ phase = "boot"
    /\ \E i \in DOMAIN config \ visited :
       \E order \in Orders(DOMAIN config[i].item.headers) :
          LET c == CompileItem(config[i].name, config[i].item, order) IN
          /\ items' = IF c.ok THEN Append(items, c.item) ELSE items
          /\ horder' = IF c.ok THEN Append(horder, order) ELSE horder
          /\ visited' = visited \cup {i}
          /\ UNCHANGED <<phase, parse_err>>
    /\ UNCHANGED <<config, proxy_items, handlerVars>>

\* parse_config, one entry of config.0 per step.  A HashMap iterates in an order
\* fixed by its hasher's random seed: any entry not yet visited may come next,
\* and the entry's headers may come in any order.
ParseStep ==
    /\ phase = "boot"
    /\ \E i \in DOMAIN config \ visited :
       \E order \in Orders(DOMAIN config[i].item.headers) :
          LET c == CompileItem(config[i].name, config[i].item, order) IN
          IF c.ok
          THEN /\ items' = Append(items, c.item)
               /\ horder' = Append(horder, order)
               /\ visited' = visited \cup {i}
               /\ UNCHANGED <<phase, parse_err>>
          ELSE \* `?`: parse_config returns Err, `items` is dropped, main returns Err
               /\ items' = <<>>
               /\ horder' = <<>>
               /\ visited' = visited \cup {i}
               /\ parse_err' = c.err
               /\ phase' = "failed"
    /\ UNCHANGED <<config, proxy_items, handlerVars>>

\* Ok(items) (line 111), AppState built and the server started (lines 237-251).
Serve ==
    /\ phase = "boot"
    /\ visited = DOMAIN config
    /\ proxy_items' = items
    /\ horder' = <<>>
    /\ phase' = "serving"
    /\ UNCHANGED <<config, visited, items, parse_err, handlerVars>>

-----------------------------------------------------------------------------
(* Requests *)

Methods == {"GET", "POST"}
Hosts == {<<"a">>, <<"b">>}
Uris == {<<"/", "a">>, <<"/", "b">>}
Values == {<<"a">>, <<"b">>, <<"0x80">>}
UpstreamStatuses == {200, 503}

\* The body a request of the model carries: none with GET, one chunk with POST.
BodyOf(m) == IF m = "POST" THEN <<"d">> ELSE <<>>

\* Policy::limited(10) (line 153)
RedirectLimit == 10

\* What an upstream answers: a final response, or a redirect to another URL.
UpstreamReplies ==
    { [kind |-> "ok", status |-> 200, headers |-> <<[name |-> "y", value |-> <<"a">>]>>],
      [kind |-> "ok", status |-> 503, headers |-> <<>>] }
RedirectReplies ==
    { [kind |-> "ok", status |-> st, headers |-> <<[name |-> "location", value |-> <<"S">>]>>]
      : st \in {302, 307} }
\* The redirects a client can follow only by sending the request's body again.
ReplayStatuses == {307, 308}
NoSubresp == [kind |-> "none", status |-> 0, headers |-> <<>>]
\* Err(reqwest::Error): the upstream unreachable, or too many redirects.
ErrSubresp == [kind |-> "err", status |-> 0, headers |-> <<>>]

\* A header as request.headers() yields it: the http crate keeps every
\* HeaderName lower-cased, whatever the case on the wire.
Header(wire, value) == [wire |-> wire, name |-> to_lowercase(wire), value |-> value]

\* The headers a request of the model may carry, as sent.
WireHeaders == {Header("X-A", v) : v \in Values} \cup {Header("x-b", <<"a">>)}

\* The header lists request.headers().iter() may yield: a HeaderMap yields the
\* values of one name together, names in the order of their first arrival.
HeaderLists ==
    {hs \in UNION { [1..n -> WireHeaders] : n \in 0..MaxHeaders } :
        \A i, j, k \in DOMAIN hs :
            (i < j /\ j < k /\ hs[i].name = hs[k].name) => hs[j].name = hs[i].name}

NoRequest == [method |-> "", host |-> <<>>, uri |-> <<>>, headers |-> <<>>, body |-> <<>>]
NoBuilder == [method |-> "", url |-> <<>>, redirect |-> "", headers |-> <<>>, body |-> <<>>]
NoResponse == [status |-> 0, headers |-> <<>>, body |-> "none"]

\* A tracing record: `keys` are the fields the macro call lists.
Record(level, keys, f) ==
    [level |-> level, keys |-> keys,
     method |-> f.method, requested |-> f.requested, matched |-> f.matched,
     forwarded |-> f.forwarded, status |-> f.status,
     unmatched_header |-> f.unmatched_header, error |-> f.error]

NoFields == [method |-> "", requested |-> <<>>, matched |-> "", forwarded |-> <<>>,
             status |-> 0, unmatched_header |-> "", error |-> ""]

\* Response::builder().status(st).body(Body::empty())
EmptyResponse(st) == [status |-> st, headers |-> <<>>, body |-> "empty"]

-----------------------------------------------------------------------------
(* handle_request and handle *)

\* Mutant of find: the last matching item instead of the first.
find_last(its, u, i) ==
    LET M == {j \in i..Len(its) : is_match(its[j].regex, u)} IN
    IF M = {} THEN 0 ELSE CHOOSE j \in M : \A k \in M : k <= j

\* Mutant of find: the first item as a default route when nothing matches.
find_or_first(its, u, i) ==
    LET M == {j \in i..Len(its) : is_match(its[j].regex, u)} IN
    IF M # {} THEN Min(M) ELSE IF Len(its) >= 1 THEN 1 ELSE 0

\* state.proxy_items.iter().find(|item| item.regex.is_match(&url)), from the
\* i-th item on: the index of the item found, 0 for None.
RECURSIVE find(_, _, _)
find(its, u, i) ==
    IF i > Len(its) THEN 0
    ELSE IF is_match(its[i].regex, u) THEN i
    ELSE find(its, u, i + 1)

\* item.header_actions.get(&name).unwrap_or(&item.header_action_fallback)
ActionFor(item, name) ==
    IF name \in DOMAIN item.header_actions
    THEN item.header_actions[name]
    ELSE item.header_action_fallback

\* Mutant of HeaderOutcome: a Replace whose pattern does not match drops the
\* header and lets the request go on.
HeaderOutcomeNoReject(action, h) ==
    IF action.kind = "Passthrough" THEN [kind |-> "forward", value |-> h.value]
    ELSE IF action.kind = "Replace"
    THEN IF ~to_str_ok(h.value) THEN [kind |-> "error", value |-> <<>>]
         ELSE IF is_match(action.regex, h.value)
         THEN [kind |-> "forward", value |-> replace(action.regex, h.value, action.replace)]
         ELSE [kind |-> "skip", value |-> <<>>]
    ELSE [kind |-> "skip", value |-> <<>>]

\* Mutant of HeaderOutcome: a value that is no string rejected like a mismatch.
HeaderOutcomeUnreadable400(action, h) ==
    IF action.kind = "Passthrough" THEN [kind |-> "forward", value |-> h.value]
    ELSE IF action.kind = "Replace"
    THEN IF to_str_ok(h.value) /\ is_match(action.regex, h.value)
         THEN [kind |-> "forward", value |-> replace(action.regex, h.value, action.replace)]
         ELSE [kind |-> "reject", value |-> <<>>]
    ELSE [kind |-> "skip", value |-> <<>>]

\* The match on the action (lines 165-188): the header forwarded with a value,
\* skipped, the request rejected (400), or the error of to_str.
HeaderOutcome(action, h) ==
    IF action.kind = "Passthrough" THEN [kind |-> "forward", value |-> h.value]
    ELSE IF action.kind = "Replace"
    THEN IF ~to_str_ok(h.value) THEN [kind |-> "error", value |-> <<>>]
         ELSE IF is_match(action.regex, h.value)
         THEN [kind |-> "forward", value |-> replace(action.regex, h.value, action.replace)]
         ELSE [kind |-> "reject", value |-> <<>>]
    ELSE [kind |-> "skip", value |-> <<>>]

\* The record of unwrap_or_else (lines 127-132).
InternalErrorRecord(req, err) ==
    Record("error", {"method", "requested", "error", "status"},
           [NoFields EXCEPT !.method = req.method, !.requested = req.uri,
                            !.error = err, !.status = 500])

\* The record of the 404 branch (lines 213-217).
NotFoundRecord(req, u) ==
    Record("info", {"method", "requested", "status"},
           [NoFields EXCEPT !.method = req.method, !.requested = u, !.status = 404])

\* The record of a header rejection (lines 175-181).
RejectedRecord(req, u, item, name) ==
    Record("error", {"method", "requested", "matched", "status", "unmatched_header"},
           [NoFields EXCEPT !.method = req.method, !.requested = u, !.matched = item.name,
                            !.status = 400, !.unmatched_header = name])

\* The record of map_err on client.execute (lines 192-198).
TransportRecord(req, u, item, t) ==
    Record("error", {"method", "requested", "matched", "forwarded", "error"},
           [NoFields EXCEPT !.method = req.method, !.requested = u, !.matched = item.name,
                            !.forwarded = t, !.error = "reqwest::Error"])

\* The record of a forwarded request (lines 202-208).
ForwardedRecord(req, u, item, t, st) ==
    Record("info", {"method", "requested", "matched", "forwarded", "status"},
           [NoFields EXCEPT !.method = req.method, !.requested = u, !.matched = item.name,
                            !.forwarded = t, !.status = st])

\* Mutant of InternalError: the error logged, and no response made of it.
InternalErrorNoResponse(s, err) ==
    /\ log' = [log EXCEPT ![s] = Append(@, InternalErrorRecord(request[s], err))]
    /\ pc' = [pc EXCEPT ![s] = "done"]
    /\ UNCHANGED response

\* handle returned Err(err): unwrap_or_else logs and answers 500 (lines 126-137).
InternalError(s, err) ==
    /\ log' = [log EXCEPT ![s] = Append(@, InternalErrorRecord(request[s], err))]
    /\ response' = [response EXCEPT ![s] = EmptyResponse(500)]
    /\ pc' = [pc EXCEPT ![s] = "done"]

\* builder.header(name, value): the header appended to the outbound request's.
PushHeader(hs, name, value) == Append(hs, [name |-> name, value |-> value])

\* axum hands a request to handle_request.
Receive(s) ==
    /\ phase = "serving"
    /\ pc[s] = "idle"
    /\ \E m \in Methods, h \in Hosts, u \in Uris, hs \in HeaderLists :
          request' = [request EXCEPT ![s] =
                         [method |-> m, host |-> h, uri |-> u, headers |-> hs,
                          body |-> BodyOf(m)]]
    /\ pc' = [pc EXCEPT ![s] = "handle"]
    /\ UNCHANGED <<phase, config, compileVars, url, matched, target_url, builder, idx,
                   applied, log, response, upstream_calls, upstreamVars>>

\* Lines 144-158 and 212-221: the URL composed, the rule looked up; either the
\* 404 answer or the target URL, the client and the request builder.  Building
\* the client fails when its TLS backend or resolver cannot be set up.
Route(s) ==
    /\ pc[s] = "handle"
    /\ LET u == request[s].host \o request[s].uri
           k == find(proxy_items, u, 1)
       IN  /\ url' = [url EXCEPT ![s] = u]
           /\ matched' = [matched EXCEPT ![s] = k]
           /\ IF k = 0
              THEN /\ log' = [log EXCEPT ![s] = Append(@, NotFoundRecord(request[s], u))]
                   /\ response' = [response EXCEPT ![s] = EmptyResponse(404)]
                   /\ pc' = [pc EXCEPT ![s] = "done"]
                   /\ UNCHANGED <<target_url, builder, idx>>
              ELSE LET item == proxy_items[k]
                       t == replace(item.regex, u, item.replace)
                   IN  /\ target_url' = [target_url EXCEPT ![s] = t]
                       /\ \E client_built \in BOOLEAN :
                             IF client_built
                             THEN /\ builder' = [builder EXCEPT ![s] =
                                        [method |-> request[s].method, url |-> t,
                                         redirect |-> IF item.follow_redirect
                                                      THEN "limited" ELSE "none",
                                         headers |-> <<>>, body |-> <<>>]]
                                  /\ idx' = [idx EXCEPT ![s] = 1]
                                  /\ pc' = [pc EXCEPT ![s] = "headers"]
                                  /\ UNCHANGED <<log, response>>
                             ELSE \* ClientBuilder::build()? failed (line 157)
                                  /\ InternalError(s, "reqwest::Error")
                                  /\ UNCHANGED <<builder, idx>>
    /\ UNCHANGED <<phase, config, compileVars, request, applied, upstream_calls,
                   upstreamVars>>

\* One iteration of the loop over request.headers() (lines 159-189).
HeaderStep(s) ==
    /\ pc[s] = "headers"
    /\ idx[s] <= Len(request[s].headers)
    /\ LET item == proxy_items[matched[s]]
           h == request[s].headers[idx[s]]
           name == to_lowercase(h.name)
           action == ActionFor(item, name)
           out == HeaderOutcome(action, h)
       IN  /\ applied' = [applied EXCEPT ![s] = Append(@, action)]
           /\ IF out.kind = "forward"
              THEN /\ builder' = [builder EXCEPT ![s].headers =
                                    PushHeader(@, h.name, out.value)]
                   /\ idx' = [idx EXCEPT ![s] = @ + 1]
                   /\ UNCHANGED <<log, response, pc>>
              ELSE IF out.kind = "error"
              THEN /\ InternalError(s, "ToStrError")
                   /\ UNCHANGED <<builder, idx>>
              ELSE IF out.kind = "reject"
              THEN /\ log' = [log EXCEPT ![s] =
                                 Append(@, RejectedRecord(request[s], url[s], item, name))]
                   /\ response' = [response EXCEPT ![s] = EmptyResponse(400)]
                   /\ pc' = [pc EXCEPT ![s] = "done"]
                   /\ UNCHANGED <<builder, idx>>
              ELSE /\ idx' = [idx EXCEPT ![s] = @ + 1]
                   /\ UNCHANGED <<builder, log, response, pc>>
    /\ UNCHANGED <<phase, config, compileVars, request, url, matched, target_url,
                   upstream_calls, upstreamVars>>

\* Mutant of Execute: the request dispatched while headers are still to be resolved.
ExecuteEarly(s) ==
    /\ pc[s] = "headers"
    /\ url_ok(target_url[s])
    /\ builder' = [builder EXCEPT ![s].body = request[s].body]
    /\ request' = [request EXCEPT ![s].body = <<>>]
    /\ upstream_calls' = [upstream_calls EXCEPT ![s] = @ + 1]
    /\ pc' = [pc EXCEPT ![s] = "await"]
    /\ UNCHANGED <<phase, config, compileVars, url, matched, target_url, idx, applied,
                   log, response, upstreamVars>>

\* Lines 190-191: the body taken out of the inbound request, the outbound
\* request built (an unparsable target URL is the builder's error) and handed
\* to client.execute.
Execute(s) ==
    /\ pc[s] = "headers"
    /\ idx[s] > Len(request[s].headers)
    /\ builder' = [builder EXCEPT ![s].body = request[s].body]
    /\ request' = [request EXCEPT ![s].body = <<>>]
    /\ IF ~url_ok(target_url[s])
       THEN /\ InternalError(s, "reqwest::Error")
            /\ UNCHANGED upstream_calls
       ELSE /\ upstream_calls' = [upstream_calls EXCEPT ![s] = @ + 1]
            /\ pc' = [pc EXCEPT ![s] = "await"]
            /\ UNCHANGED <<log, response>>
    /\ UNCHANGED <<phase, config, compileVars, url, matched, target_url, idx, applied,
                   upstreamVars>>

\* The headers reqwest::Client::builder() gives every client (line 151).
DefaultHeaders == <<[name |-> "accept", value |-> <<"*", "/", "*">>]>>

\* The request client.execute(subrequest) sends (line 191): the one built, and
\* each default header of the client whose name the request does not carry.
Subrequest(s) ==
    [builder[s] EXCEPT !.headers =
        @ \o SelectSeq(DefaultHeaders,
                       LAMBDA d : \A j \in DOMAIN builder[s].headers :
                                     builder[s].headers[j].name # d.name)]

\* Mutant of Forward: the response built without the upstream's headers.
ForwardNoHeaders(s, r) ==
    /\ subresp' = [subresp EXCEPT ![s] = r]
    /\ log' = [log EXCEPT ![s] =
          Append(@, ForwardedRecord(request[s], url[s], proxy_items[matched[s]],
                                    target_url[s], r.status))]
    /\ response' = [response EXCEPT ![s] =
          [status |-> r.status, headers |-> <<>>, body |-> "stream"]]
    /\ stream' = [stream EXCEPT ![s] = "open"]
    /\ hops' = [hops EXCEPT ![s] = 0]
    /\ pc' = [pc EXCEPT ![s] = "done"]

\* client.execute resolved to Ok(r), its count of followed redirects gone with
\* the call: the record, then the response with r's
\* status and headers and its body as a stream (lines 202-211).
Forward(s, r) ==
    /\ subresp' = [subresp EXCEPT ![s] = r]
    /\ log' = [log EXCEPT ![s] =
          Append(@, ForwardedRecord(request[s], url[s], proxy_items[matched[s]],
                                    target_url[s], r.status))]
    /\ response' = [response EXCEPT ![s] =
          [status |-> r.status, headers |-> r.headers, body |-> "stream"]]
    /\ stream' = [stream EXCEPT ![s] = "open"]
    /\ hops' = [hops EXCEPT ![s] = 0]
    /\ pc' = [pc EXCEPT ![s] = "done"]

\* client.execute resolved to Err: map_err logs, `?` returns the error to
\* handle_request, whose unwrap_or_else logs and answers 500 (lines 191-200, 126-137).
ExecuteFailed(s) ==
    /\ subresp' = [subresp EXCEPT ![s] = ErrSubresp]
    /\ log' = [log EXCEPT ![s] =
          Append(Append(@, TransportRecord(request[s], url[s], proxy_items[matched[s]],
                                           target_url[s])),
                 InternalErrorRecord(request[s], "reqwest::Error"))]
    /\ response' = [response EXCEPT ![s] = EmptyResponse(500)]
    /\ hops' = [hops EXCEPT ![s] = 0]
    /\ pc' = [pc EXCEPT ![s] = "done"]
    /\ UNCHANGED stream

\* The upstream answers with a final response.
UpstreamRespond(s) ==
    /\ pc[s] = "await"
    /\ \E r \in UpstreamReplies : Forward(s, r)
    /\ UNCHANGED <<phase, config, compileVars, request, url, matched, target_url,
                   builder, idx, applied, upstream_calls>>

\* The upstream answers with a redirect.  Under Policy::none() it is the
\* response execute resolves to.  Under Policy::limited(10) the client follows it
\* inside execute and gives up with an error past the limit (lines 151-157);
\* a 307 or 308 it follows only when it can send the body again, and the body
\* given to it here is the inbound request's stream (line 190), sent once: such
\* a redirect is the response execute resolves to.
UpstreamRedirect(s) ==
    /\ pc[s] = "await"
    /\ \E r \in RedirectReplies :
          IF builder[s].redirect = "none" \/ r.status \in ReplayStatuses
          THEN Forward(s, r)
          ELSE IF hops[s] < RedirectLimit
          THEN /\ hops' = [hops EXCEPT ![s] = @ + 1]
               /\ UNCHANGED <<subresp, log, response, stream, pc>>
          ELSE ExecuteFailed(s)
    /\ UNCHANGED <<phase, config, compileVars, request, url, matched, target_url,
                   builder, idx, applied, upstream_calls>>

\* The upstream cannot be reached, or the connection breaks before its response.
UpstreamFail(s) ==
    /\ pc[s] = "await"
    /\ ExecuteFailed(s)
    /\ UNCHANGED <<phase, config, compileVars, request, url, matched, target_url,
                   builder, idx, applied, upstream_calls>>

\* hyper polls the returned body: a chunk of the upstream's body reaches the client.
StreamChunk(s) ==
    /\ pc[s] = "done"
    /\ stream[s] \in {"open", "sent"}
    /\ stream' = [stream EXCEPT ![s] = "sent"]
    /\ UNCHANGED <<phase, config, compileVars, pc, request, url, matched, target_url,
                   builder, idx, applied, log, response, upstream_calls, hops, subresp>>

\* Mutant of StreamFail: the broken body logged, and the response turned into a 500.
StreamFailLogged(s) ==
    /\ pc[s] = "done"
    /\ stream[s] \in {"open", "sent"}
    /\ stream' = [stream EXCEPT ![s] = "failed"]
    /\ log' = [log EXCEPT ![s] = Append(@, InternalErrorRecord(request[s], "reqwest::Error"))]
    /\ response' = [response EXCEPT ![s].status = 500]
    /\ UNCHANGED <<phase, config, compileVars, pc, request, url, matched, target_url,
                   builder, idx, applied, upstream_calls, hops, subresp>>

\* The upstream's body breaks off: the client's connection is cut short.
StreamFail(s) ==
    /\ pc[s] = "done"
    /\ stream[s] \in {"open", "sent"}
    /\ stream' = [stream EXCEPT ![s] = "failed"]
    /\ UNCHANGED <<phase, config, compileVars, pc, request, url, matched, target_url,
                   builder, idx, applied, log, response, upstream_calls, hops, subresp>>

\* Mutant of Complete: a finished request takes the first rule out of the rule set.
CompleteDropsRule(s) ==
    /\ pc[s] = "done"
    /\ pc' = [pc EXCEPT ![s] = "idle"]
    /\ request' = [request EXCEPT ![s] = NoRequest]
    /\ url' = [url EXCEPT ![s] = <<>>]
    /\ matched' = [matched EXCEPT ![s] = 0]
    /\ target_url' = [target_url EXCEPT ![s] = <<>>]
    /\ builder' = [builder EXCEPT ![s] = NoBuilder]
    /\ idx' = [idx EXCEPT ![s] = 0]
    /\ applied' = [applied EXCEPT ![s] = <<>>]
    /\ log' = [log EXCEPT ![s] = <<>>]
    /\ response' = [response EXCEPT ![s] = NoResponse]
    /\ upstream_calls' = [upstream_calls EXCEPT ![s] = 0]
    /\ subresp' = [subresp EXCEPT ![s] = NoSubresp]
    /\ stream' = [stream EXCEPT ![s] = "none"]
    /\ proxy_items' = IF proxy_items = <<>> THEN <<>> ELSE Tail(proxy_items)
    /\ UNCHANGED <<phase, config, visited, items, horder, parse_err, hops>>

\* The response has been sent, its body, if it streams one, to the end or to
\* the point where it broke off; the task ends and its values are dropped.
Complete(s) ==
    /\ pc[s] = "done"
    /\ pc' = [pc EXCEPT ![s] = "idle"]
    /\ request' = [request EXCEPT ![s] = NoRequest]
    /\ url' = [url EXCEPT ![s] = <<>>]
    /\ matched' = [matched EXCEPT ![s] = 0]
    /\ target_url' = [target_url EXCEPT ![s] = <<>>]
    /\ builder' = [builder EXCEPT ![s] = NoBuilder]
    /\ idx' = [idx EXCEPT ![s] = 0]
    /\ applied' = [applied EXCEPT ![s] = <<>>]
    /\ log' = [log EXCEPT ![s] = <<>>]
    /\ response' = [response EXCEPT ![s] = NoResponse]
    /\ upstream_calls' = [upstream_calls EXCEPT ![s] = 0]
    /\ subresp' = [subresp EXCEPT ![s] = NoSubresp]
    /\ stream' = [stream EXCEPT ![s] = "none"]
    /\ UNCHANGED <<phase, config, compileVars, hops>>

-----------------------------------------------------------------------------
(* Specification *)

Handlers == {1}

\* The state after construction, with the handler tasks H.
InitWith(H) ==
    /\ phase = "boot"
    /\ visited = {}
    /\ items = <<>>
    /\ horder = <<>>
    /\ parse_err = NoErr
    /\ proxy_items = <<>>
    /\ pc = [s \in H |-> "idle"]
    /\ request = [s \in H |-> NoRequest]
    /\ url = [s \in H |-> <<>>]
    /\ matched = [s \in H |-> 0]
    /\ target_url = [s \in H |-> <<>>]
    /\ builder = [s \in H |-> NoBuilder]
    /\ idx = [s \in H |-> 0]
    /\ applied = [s \in H |-> <<>>]
    /\ log = [s \in H |-> <<>>]
    /\ response = [s \in H |-> NoResponse]
    /\ upstream_calls = [s \in H |-> 0]
    /\ hops = [s \in H |-> 0]
    /\ subresp = [s \in H |-> NoSubresp]
    /\ stream = [s \in H |-> "none"]

Init ==
    /\ config \in Configs
    /\ InitWith(Handlers)

Next ==
    \/ ParseStep
    \/ Serve
    \/ \E s \in DOMAIN pc : Receive(s)
    \/ \E s \in DOMAIN pc : Route(s)
    \/ \E s \in DOMAIN pc : HeaderStep(s)
    \/ \E s \in DOMAIN pc : Execute(s)
    \/ \E s \in DOMAIN pc : UpstreamRespond(s)
    \/ \E s \in DOMAIN pc : UpstreamRedirect(s)
    \/ \E s \in DOMAIN pc : UpstreamFail(s)
    \/ \E s \in DOMAIN pc : StreamChunk(s)
    \/ \E s \in DOMAIN pc : StreamFail(s)
    \/ \E s \in DOMAIN pc : Complete(s)

Spec == Init /\ [][Next]_vars

\* The server with two handler tasks in flight at once (the tokio runtime runs
\* one task per request, line 119 and 246-249): one rule per configuration,
\* requests without a body and with at most one header.
ConcHandlers == {1, 2}

ConcConfigs == {c \in Configs : Len(c) = 1}

ConcHeaderLists == {hs \in HeaderLists : Len(hs) <= 1}

ReceiveConc(s) ==
    /\ phase = "serving"
    /\ pc[s] = "idle"
    /\ \E h \in Hosts, u \in Uris, hs \in ConcHeaderLists :
          request' = [request EXCEPT ![s] =
                         [method |-> "GET", host |-> h, uri |-> u, headers |-> hs,
                          body |-> BodyOf("GET")]]
    /\ pc' = [pc EXCEPT ![s] = "handle"]
    /\ UNCHANGED <<phase, config, compileVars, url, matched, target_url, builder, idx,
                   applied, log, response, upstream_calls, upstreamVars>>

InitConc ==
    /\ config \in ConcConfigs
    /\ InitWith(ConcHandlers)

NextConc ==
    \/ ParseStep
    \/ Serve
    \/ \E s \in DOMAIN pc : ReceiveConc(s)
    \/ \E s \in DOMAIN pc : Route(s)
    \/ \E s \in DOMAIN pc : HeaderStep(s)
    \/ \E s \in DOMAIN pc : Execute(s)
    \/ \E s \in DOMAIN pc : UpstreamRespond(s)
    \/ \E s \in DOMAIN pc : UpstreamRedirect(s)
    \/ \E s \in DOMAIN pc : UpstreamFail(s)
    \/ \E s \in DOMAIN pc : StreamChunk(s)
    \/ \E s \in DOMAIN pc : StreamFail(s)
    \/ \E s \in DOMAIN pc : Complete(s)

SpecConc == InitConc /\ [][NextConc]_vars

-----------------------------------------------------------------------------
(* Properties *)

\* The composed URL of the request handler s holds.
Composed(s) == request[s].host \o request[s].uri

\* The rule handler s matched, and the definition it was compiled from.
ItemOf(s) == proxy_items[matched[s]]
DefOf(item) == config[CHOOSE i \in DOMAIN config : config[i].name = item.name].item

\* The action the compiled rule of handler s holds for its i-th inbound header.
ActionAt(s, i) == ActionFor(ItemOf(s), to_lowercase(request[s].headers[i].wire))

\* The i-th inbound header of s has a Replace action whose pattern does not
\* match its value / whose value cannot be read as a string.
IsMismatch(s, i) ==
    /\ ActionAt(s, i).kind = "Replace"
    /\ to_str_ok(request[s].headers[i].value)
    /\ ~is_match(ActionAt(s, i).regex, request[s].headers[i].value)
IsUnreadable(s, i) ==
    /\ ActionAt(s, i).kind = "Replace"
    /\ ~to_str_ok(request[s].headers[i].value)

Mismatches(s) == {i \in DOMAIN request[s].headers : IsMismatch(s, i)}

\* Some pattern of the configuration does not compile.
BadPatterns(item) ==
    {p \in {item.match} : ~RegexNew(p).ok}
    \cup {item.headers[k].match : k \in {k \in DOMAIN item.headers :
              item.headers[k].kind = "Replace" /\ ~RegexNew(item.headers[k].match).ok}}
HasBadPattern(cfg) == \E i \in DOMAIN cfg : BadPatterns(cfg[i].item) # {}

\* C1: on every terminal outcome of a request (the response is returned) exactly
\* one log record has been emitted for it.
C1_ExactlyOneRecord ==
    \A s \in DOMAIN pc : pc[s] = "done" => Len(log[s]) = 1

\* C2 as stated: a matched request with an inbound header whose Replace pattern
\* does not match its value ends with the empty 400 response and no upstream
\* call, whatever headers come before it (read for the requests whose header
\* loop was entered).
C2_MismatchAlways400 ==
    \A s \in DOMAIN pc :
        (pc[s] = "done" /\ matched[s] # 0 /\ builder[s] # NoBuilder /\ Mismatches(s) # {})
            => response[s] = EmptyResponse(400) /\ upstream_calls[s] = 0

\* C2 as amended: such a request is never dispatched to the upstream, and it ends
\* with the empty 400 response, unless handling failed before the failing header
\* was looked at (the client could not be built, or an earlier header has a
\* Replace action and a value that is no string): then it ends with the empty
\* 500 response.
C2_MismatchNeverForwarded ==
    \A s \in DOMAIN pc :
        (matched[s] # 0 /\ Mismatches(s) # {})
            => /\ upstream_calls[s] = 0
               /\ pc[s] # "await"
               /\ pc[s] = "done" =>
                    response[s] =
                        IF \/ builder[s] = NoBuilder
                           \/ \E j \in 1..(Min(Mismatches(s)) - 1) : IsUnreadable(s, j)
                        THEN EmptyResponse(500)
                        ELSE EmptyResponse(400)

\* C2 witness: a request rejected with 400 after an earlier header had already
\* been put on the outbound request.
C2_Witness ==
    \E s \in DOMAIN pc :
        /\ pc[s] = "done"
        /\ response[s] = EmptyResponse(400)
        /\ Len(builder[s].headers) >= 1
        /\ upstream_calls[s] = 0

\* C3: a request whose composed URL matches no compiled rule ends with the empty
\* 404 response; no outbound request is built or dispatched for it.
C3_NoMatch404 ==
    \A s \in DOMAIN pc :
        (pc[s] \notin {"idle", "handle"}
         /\ \A i \in DOMAIN proxy_items : ~is_match(proxy_items[i].regex, Composed(s)))
            => /\ pc[s] = "done"
               /\ response[s] = EmptyResponse(404)
               /\ upstream_calls[s] = 0
               /\ builder[s] = NoBuilder

\* C3 witness: a 404 answer given while two rules are compiled.
C3_Witness ==
    \E s \in DOMAIN pc :
        /\ pc[s] = "done"
        /\ response[s].status = 404
        /\ Len(proxy_items) = 2

\* C4: the rule selected is the first of proxy_items whose regex matches
\* host + uri; none is selected only when none matches.
C4_FirstMatchWins ==
    \A s \in DOMAIN pc :
        pc[s] \notin {"idle", "handle"}
            => /\ url[s] = Composed(s)
               /\ matched[s] \in 0..Len(proxy_items)
               /\ \A i \in DOMAIN proxy_items :
                     is_match(proxy_items[i].regex, Composed(s)) =>
                        matched[s] # 0 /\ matched[s] <= i
               /\ matched[s] # 0 => is_match(proxy_items[matched[s]].regex, Composed(s))

\* C4 witness: the first rule selected while the second matches the URL too.
C4_Witness ==
    \E s \in DOMAIN pc :
        /\ pc[s] = "headers"
        /\ matched[s] = 1
        /\ Len(proxy_items) >= 2
        /\ is_match(proxy_items[2].regex, url[s])

\* C5: the compiled rule sequence is in the order of the rule-definition input,
\* in every run.
C5_InputOrderKept ==
    phase = "serving" =>
        \A i \in DOMAIN proxy_items : proxy_items[i].name = config[i].name

\* C6: when some pattern of the rule definitions does not compile, no rule is
\* ever available and no request is ever accepted; parse_config has failed once
\* it has gone through the definitions.
C6_AllOrNothing ==
    /\ HasBadPattern(config) =>
          /\ phase # "serving"
          /\ proxy_items = <<>>
          /\ \A s \in DOMAIN pc : pc[s] = "idle"
          /\ visited = DOMAIN config => phase = "failed"
    /\ phase = "failed" => parse_err # NoErr /\ items = <<>>
    /\ phase = "serving" => Len(proxy_items) = Len(config)

\* C6 witness: compilation failed after another rule had compiled.
C6_Witness ==
    /\ phase = "failed"
    /\ Cardinality(visited) >= 2
    /\ proxy_items = <<>>

\* C7: the error of an aborted compilation identifies the offending rule by its
\* name and the offending pattern.
C7_ErrorNamesRuleAndPattern ==
    phase = "failed" =>
        \E i \in DOMAIN config :
            /\ config[i].name \in Range(parse_err.context)
            /\ parse_err.text \in BadPatterns(config[i].item)

\* C8: under a rule whose definition has no "$default" entry, no inbound header
\* whose lower-cased name is not a key of the header table is on the outbound
\* request.
C8_UnlistedDropped ==
    \A s \in DOMAIN pc :
        (matched[s] # 0 /\ "$default" \notin DOMAIN DefOf(ItemOf(s)).headers)
            => /\ \A j \in DOMAIN builder[s].headers :
                     to_lowercase(builder[s].headers[j].name) \in DOMAIN ItemOf(s).header_actions
               /\ pc[s] = "await" =>
                     Len(builder[s].headers) <=
                        Cardinality({i \in DOMAIN request[s].headers :
                            to_lowercase(request[s].headers[i].wire)
                                \in DOMAIN ItemOf(s).header_actions})

\* C8 witness: a request dispatched under such a rule, one of its headers
\* unlisted and another one forwarded.
C8_Witness ==
    \E s \in DOMAIN pc :
        /\ pc[s] = "await"
        /\ "$default" \notin DOMAIN DefOf(ItemOf(s)).headers
        /\ \E i \in DOMAIN request[s].headers :
              request[s].headers[i].name \notin DOMAIN ItemOf(s).header_actions
        /\ Len(builder[s].headers) >= 1

\* C9: the action applied to an inbound header is the header table's entry for
\* its lower-cased name when there is one, the fallback otherwise; an entry the
\* definition names for the header, in any case, wins over "$default".
C9_NamedBeforeDefault ==
    \A s \in DOMAIN pc :
        \A j \in DOMAIN applied[s] :
            LET n == to_lowercase(request[s].headers[j].wire)
                item == ItemOf(s)
                def == DefOf(item)
                named == {k \in DOMAIN def.headers \ {"$default"} : to_lowercase(k) = n}
            IN  /\ n \in DOMAIN item.header_actions =>
                      applied[s][j] = item.header_actions[n]
                /\ n \notin DOMAIN item.header_actions =>
                      applied[s][j] = item.header_action_fallback
                /\ named # {} =>
                      applied[s][j] \in {CompileAction(def.headers[k]).action : k \in named}
                /\ named = {} =>
                      applied[s][j] =
                         IF "$default" \in DOMAIN def.headers
                         THEN CompileAction(def.headers["$default"]).action
                         ELSE Ignore

\* C9 witness: a header got the action of the entry the definition names in
\* another case ("X-B" for x-b), not the "$default" action of the same rule.
C9_Witness ==
    \E s \in DOMAIN pc :
        \E j \in DOMAIN applied[s] :
            /\ request[s].headers[j].wire = "x-b"
            /\ "X-B" \in DOMAIN DefOf(ItemOf(s)).headers
            /\ "$default" \in DOMAIN DefOf(ItemOf(s)).headers
            /\ applied[s][j] # ItemOf(s).header_action_fallback

\* C10: every log record of a request carries the fields method, requested and
\* status, requested being the composed URL host + uri.
C10_RecordFields ==
    \A s \in DOMAIN pc :
        \A j \in DOMAIN log[s] :
            /\ {"method", "requested", "status"} \subseteq log[s][j].keys
            /\ log[s][j].method = request[s].method
            /\ log[s][j].requested = Composed(s)

\* No compiled rule matches the composed URL of s.
NoRuleMatches(s) ==
    \A i \in DOMAIN proxy_items : ~is_match(proxy_items[i].regex, Composed(s))

\* The header loop of s stopped at a header it rejected.
Rejected(s) ==
    /\ Len(applied[s]) >= 1
    /\ IsMismatch(s, Len(applied[s]))

\* The status the request of s is to end with.
ExpectedStatus(s) ==
    IF NoRuleMatches(s) THEN 404
    ELSE IF subresp[s].kind = "ok" THEN subresp[s].status
    ELSE IF Rejected(s) THEN 400
    ELSE 500

\* C11: a request has a response exactly when its handling has ended, and the
\* response's status is 404 when no rule matches, 400 when a header was
\* rejected, the upstream's when the upstream answered and 500 otherwise, the
\* three of the proxy's own with an empty body; while one handler has ended in
\* 500 the server still serves and the other handler can take its next step.
C11_AlwaysOneResponse ==
    \A s \in DOMAIN pc :
        /\ (pc[s] = "done") <=> (response[s] # NoResponse)
        /\ pc[s] # "idle" => phase = "serving"
        /\ pc[s] = "done" =>
              /\ response[s].status = ExpectedStatus(s)
              /\ subresp[s].kind # "ok" => response[s] = EmptyResponse(ExpectedStatus(s))
              /\ response[s].status = 500 =>
                    \A t \in DOMAIN pc \ {s} :
                        /\ pc[t] = "idle" => ENABLED ReceiveConc(t)
                        /\ pc[t] = "handle" => ENABLED Route(t)
                        /\ pc[t] = "headers" => ENABLED (HeaderStep(t) \/ Execute(t))
                        /\ pc[t] = "await" => ENABLED UpstreamRespond(t)

\* C11 witness: one handler has answered 500 after its upstream failed, and the
\* other, meanwhile, is streaming the 200 of its upstream.
C11_Witness ==
    \E s, t \in DOMAIN pc :
        /\ s # t
        /\ pc[s] = "done" /\ response[s] = EmptyResponse(500) /\ subresp[s].kind = "err"
        /\ pc[t] = "done" /\ response[t].status = 200 /\ stream[t] = "sent"

\* C12: the redirect policy is the one the matched rule's flag selects; without
\* follow_redirect no redirect is followed, and a redirect of the upstream is
\* the response returned; with follow_redirect no more than 10 redirects are
\* followed, and the response returned after a chain of at most 10 is not a
\* redirect.
C12_RedirectPolicy ==
    \A s \in DOMAIN pc :
        (matched[s] # 0 /\ builder[s] # NoBuilder) =>
            /\ builder[s].redirect = IF ItemOf(s).follow_redirect THEN "limited" ELSE "none"
            /\ hops[s] <= RedirectLimit
            /\ ~ItemOf(s).follow_redirect => hops[s] = 0
            /\ (ItemOf(s).follow_redirect /\ subresp[s].kind = "ok")
                  => subresp[s] \notin RedirectReplies

\* All the state the handling of the request of s reads or writes.
HState(s) ==
    <<pc[s], request[s], url[s], matched[s], target_url[s], builder[s], idx[s],
      applied[s], log[s], response[s], upstream_calls[s], hops[s], subresp[s], stream[s]>>

\* Two handlers routed the same composed URL to the same rule, and two that
\* ended on the same request, with the same reply of the upstream (and the
\* client built for both or for neither), ended the same way.
SameOutcome ==
    \A s, t \in DOMAIN pc :
        /\ (pc[s] \notin {"idle", "handle"} /\ pc[t] \notin {"idle", "handle"}
                /\ Composed(s) = Composed(t))
              => matched[s] = matched[t]
        /\ (pc[s] = "done" /\ pc[t] = "done" /\ request[s] = request[t]
                /\ subresp[s] = subresp[t]
                /\ (builder[s] = NoBuilder <=> builder[t] = NoBuilder))
              => /\ response[s] = response[t]
                 /\ log[s] = log[t]
                 /\ builder[s] = builder[t]
                 /\ target_url[s] = target_url[t]

\* C13: once serving, no step changes the compiled rule set, and a step changes
\* the state of one handler at most, so that nothing else is shared; with two
\* requests handled concurrently in any interleaving, routing gives the same
\* rule for the same composed URL, and the outcome of a request is fixed by the
\* request, the rule set and the upstream's reply.
C13_ReadOnlyRulesDeterministicRouting ==
    /\ []SameOutcome
    /\ [][/\ phase = "serving" => (proxy_items' = proxy_items /\ phase' = phase)
          /\ \A s, t \in DOMAIN pc :
                s # t => (HState(s)' = HState(s) \/ HState(t)' = HState(t))]_vars

\* C13 witness: two handlers have ended on the same request, matched by a rule
\* and answered by the upstream with the same reply.
C13_Witness ==
    \E s, t \in DOMAIN pc :
        /\ s # t
        /\ pc[s] = "done" /\ pc[t] = "done"
        /\ request[s] = request[t]
        /\ matched[s] # 0
        /\ subresp[s].kind = "ok" /\ subresp[s] = subresp[t]
        /\ response[s] = response[t]

\* C14: a request is dispatched only when every inbound header has been
\* resolved, the upstream's response exists only for a dispatched request, and
\* the client's response is started (its body streams) only with the upstream's
\* response in hand; after a failure of the upstream the client has the empty
\* 500 response and nothing was streamed.
C14_StepOrder ==
    \A s \in DOMAIN pc :
        /\ upstream_calls[s] >= 1 =>
              /\ idx[s] > Len(request[s].headers)
              /\ Len(applied[s]) = Len(request[s].headers)
        /\ pc[s] = "await" => (upstream_calls[s] = 1 /\ response[s] = NoResponse)
        /\ subresp[s] # NoSubresp => upstream_calls[s] = 1
        /\ (response[s].body = "stream" \/ stream[s] # "none") =>
              /\ subresp[s].kind = "ok"
              /\ response[s].status = subresp[s].status
        /\ subresp[s].kind = "err" =>
              /\ response[s] = EmptyResponse(500)
              /\ stream[s] = "none"

\* C14 witness: a request with two inbound headers, both resolved, was
\* dispatched, answered by the upstream, and its response is being streamed.
C14_Witness ==
    \E s \in DOMAIN pc :
        /\ pc[s] = "done"
        /\ Len(request[s].headers) >= 2
        /\ Len(applied[s]) = Len(request[s].headers)
        /\ upstream_calls[s] = 1
        /\ subresp[s].kind = "ok"
        /\ stream[s] = "sent"

\* The inbound headers hs from the i-th on, each transformed by the action the
\* rule holds for it.
RECURSIVE Transform(_, _, _)
Transform(item, hs, i) ==
    IF i > Len(hs) THEN <<>>
    ELSE LET h == hs[i]
             a == ActionFor(item, h.name)
         IN  (IF a.kind = "Passthrough" THEN <<[name |-> h.name, value |-> h.value]>>
              ELSE IF a.kind = "Replace"
              THEN <<[name |-> h.name, value |-> replace(a.regex, h.value, a.replace)]>>
              ELSE <<>>)
             \o Transform(item, hs, i + 1)

\* C15: the headers of a dispatched outbound request are exactly the inbound
\* headers, each transformed by its action, in inbound order, and none besides.
C15_OutboundHeadersExact ==
    \A s \in DOMAIN pc :
        upstream_calls[s] = 1 =>
            Subrequest(s).headers = Transform(ItemOf(s), request[s].headers, 1)

\* C16: the target URL of a routed request is its composed URL with one match of
\* the rule's regex replaced by the expanded target template: the leftmost one,
\* the match routing selected the rule by; the text before it and all the text
\* after it, further matches included, are the composed URL's.
C16_FirstMatchOnly ==
    \A s \in DOMAIN pc :
        (matched[s] # 0 /\ pc[s] \notin {"idle", "handle"}) =>
            \E i \in MatchStarts(ItemOf(s).regex, url[s]) :
                LET e == MatchFrom(ItemOf(s).regex, 1, url[s], i)
                    put == Expand(ItemOf(s).replace, SubSeq(url[s], i, e - 1))
                    rest == Len(url[s]) - e + 1
                IN  /\ \A j \in 1..(i - 1) : j \notin MatchStarts(ItemOf(s).regex, url[s])
                    /\ Len(target_url[s]) = (i - 1) + Len(put) + rest
                    /\ SubSeq(target_url[s], 1, i - 1) = SubSeq(url[s], 1, i - 1)
                    /\ SubSeq(target_url[s], i, i - 1 + Len(put)) = put
                    /\ SubSeq(target_url[s], i + Len(put), Len(target_url[s]))
                          = SubSeq(url[s], e, Len(url[s]))

\* C16 witness: a routed request whose composed URL holds two matches of the
\* rule's regex.
C16_Witness ==
    \E s \in DOMAIN pc :
        /\ matched[s] # 0
        /\ pc[s] = "headers"
        /\ Cardinality(MatchStarts(ItemOf(s).regex, url[s])) >= 2
        /\ target_url[s] # url[s]

\* The positions of the iteration order `order` whose key is written to the
\* table under `name`.
WritesOf(order, name) ==
    {j \in DOMAIN order : order[j] # "$default" /\ to_lowercase(order[j]) = name}

Max(S) == CHOOSE x \in S : \A y \in S : x >= y

\* C17: in every compiled rule "$default" is no key of header_actions and its
\* action is the rule's fallback (Ignore without it); the keys of
\* header_actions are the other header keys lower-cased; and under each key
\* stands the action of the last entry the loop wrote under it.
C17_DefaultAndLastWrite ==
    /\ \A i \in DOMAIN items :
          LET def == DefOf(items[i]).headers
              named == DOMAIN def \ {"$default"}
          IN  /\ "$default" \notin DOMAIN items[i].header_actions
              /\ DOMAIN items[i].header_actions = {to_lowercase(k) : k \in named}
              /\ items[i].header_action_fallback =
                    IF "$default" \in DOMAIN def
                    THEN CompileAction(def["$default"]).action
                    ELSE Ignore
    /\ Len(horder) = Len(items) =>
          \A i \in DOMAIN items :
              \A name \in DOMAIN items[i].header_actions :
                  items[i].header_actions[name] =
                      CompileAction(DefOf(items[i]).headers[
                          horder[i][Max(WritesOf(horder[i], name))]]).action

\* C17 witness: a compiled rule two of whose header keys are equal once
\* lower-cased and carry different actions; the second one written is kept.
C17_Witness ==
    \E i \in DOMAIN horder :
        \E j, k \in DOMAIN horder[i] :
            LET def == DefOf(items[i]).headers
                name == to_lowercase(horder[i][k])
            IN  /\ j < k
                /\ horder[i][j] # "$default" /\ horder[i][k] # "$default"
                /\ to_lowercase(horder[i][j]) = name
                /\ def[horder[i][j]] # def[horder[i][k]]
                /\ items[i].header_actions[name] = CompileAction(def[horder[i][k]]).action

\* C18: the response to a request the upstream answered has the upstream's
\* status and headers and streams its body; the outbound request was built with
\* the inbound method, and the step that dispatches it gives it the inbound
\* request's body and the target URL.
C18_Verbatim ==
    /\ [](\A s \in DOMAIN pc :
            /\ subresp[s].kind = "ok" =>
                  /\ response[s].status = subresp[s].status
                  /\ response[s].headers = subresp[s].headers
                  /\ response[s].body = "stream"
            /\ upstream_calls[s] = 1 =>
                  /\ builder[s].method = request[s].method
                  /\ builder[s].body = BodyOf(request[s].method))
    /\ [][\A s \in DOMAIN pc :
            (pc[s] = "headers" /\ pc'[s] = "await") =>
                /\ builder'[s].body = request[s].body
                /\ builder'[s].method = request[s].method
                /\ builder'[s].url = target_url[s]]_vars

\* C18 witness: a POST with a body was dispatched and the upstream answered with
\* a status other than 200 and a header; the response carries both.
C18_Witness ==
    \E s \in DOMAIN pc :
        /\ pc[s] = "done"
        /\ request[s].method = "POST"
        /\ builder[s].method = "POST" /\ builder[s].body = <<"d">>
        /\ subresp[s].kind = "ok" /\ subresp[s].status # 200 /\ subresp[s].headers # <<>>
        /\ response[s].status = subresp[s].status
        /\ response[s].headers = subresp[s].headers

\* Some record of s reports the error of to_str.
LoggedToStrError(s) == \E j \in DOMAIN log[s] : log[s][j].error = "ToStrError"

\* C19: once a Replace action has been applied to a header whose value cannot
\* be read as a string, the request has ended with the empty 500 response, the
\* error logged, and was not dispatched; and the error of to_str is reported
\* only where the action applied last is such a Replace: never for a header
\* under Passthrough or Ignore, whatever its value.
C19_UnreadableIs500 ==
    \A s \in DOMAIN pc :
        /\ (matched[s] # 0 /\ Len(applied[s]) >= 1 /\ IsUnreadable(s, Len(applied[s]))
               /\ applied[s][Len(applied[s])].kind = "Replace")
              => /\ pc[s] = "done"
                 /\ response[s] = EmptyResponse(500)
                 /\ upstream_calls[s] = 0
                 /\ subresp[s] = NoSubresp
                 /\ LoggedToStrError(s)
        /\ LoggedToStrError(s)
              => /\ Len(applied[s]) >= 1
                 /\ applied[s][Len(applied[s])].kind = "Replace"
                 /\ ~to_str_ok(request[s].headers[Len(applied[s])].value)

\* C19 witness: the second header of a request, after a first one was forwarded,
\* met a Replace action with a value that is no string: 500, nothing dispatched.
C19_Witness ==
    \E s \in DOMAIN pc :
        /\ pc[s] = "done"
        /\ Len(applied[s]) = 2
        /\ Len(builder[s].headers) = 1
        /\ applied[s][2].kind = "Replace"
        /\ ~to_str_ok(request[s].headers[2].value)
        /\ response[s] = EmptyResponse(500)
        /\ upstream_calls[s] = 0

\* C20: the record of a forwarded request is emitted in the step that receives
\* the upstream's status and headers, with nothing of the body streamed yet;
\* while and after the body streams, broken off or not, it stays the request's
\* only record, and the status logged and the status sent stay the upstream's.
C20_RecordBeforeBody ==
    /\ [](\A s \in DOMAIN pc :
            /\ stream[s] # "none" =>
                  /\ subresp[s].kind = "ok"
                  /\ Len(log[s]) = 1
                  /\ log[s][1].level = "info"
                  /\ log[s][1].status = subresp[s].status
                  /\ response[s].status = subresp[s].status
            /\ (\E j \in DOMAIN log[s] : "forwarded" \in log[s][j].keys
                                            /\ "status" \in log[s][j].keys)
                  => subresp[s].kind = "ok")
    /\ [][\A s \in DOMAIN pc :
            /\ (subresp[s] = NoSubresp /\ subresp'[s].kind = "ok")
                  => (Len(log'[s]) = Len(log[s]) + 1 /\ stream'[s] = "open")
            /\ (stream[s] \in {"open", "sent"} /\ stream'[s] \in {"sent", "failed"})
                  => (log'[s] = log[s] /\ response'[s] = response[s])]_vars

\* C20 witness: the body of a forwarded response broke off; one record, of
\* status 200, the status of the response.
C20_Witness ==
    \E s \in DOMAIN pc :
        /\ stream[s] = "failed"
        /\ Len(log[s]) = 1
        /\ log[s][1].status = 200
        /\ response[s].status = 200

====
